---- MODULE Spec2Model ----
(***************************************************************************)
(* Model of flip-docs/resources/experiments/basic-bimodal.py: the plotting *)
(* script that renders the static four-panel figure of the basic-bimodal   *)
(* experiment, saves it, and builds and saves two animations.              *)
(*                                                                         *)
(* The script is one straight-line run.  Its state is the module globals   *)
(* it assigns (i, xmin, xmax, ymin, ymax), the figure it composes (axes),  *)
(* the calls it makes into pdfplot / kldplot (calls), the animation        *)
(* objects it holds (anims) and the files it has written (written).  The   *)
(* input files are the environment: `bad` names the checkpoint / trace     *)
(* files that are missing or malformed for this run.                       *)
(*                                                                         *)
(* pdfplot.py and kldplot.py are imported by the script but their text is  *)
(* not part of the sources at hand; their behaviour is taken from the      *)
(* design document (sections 4.2 - 4.4) and marked as such below.          *)
(***************************************************************************)
EXTENDS Integers, Sequences, FiniteSets, TLC

VARIABLES pc, i, it, xmin, xmax, ymin, ymax, axes, calls, loads, anims,
          written, err, bad, ex, first, last

bounds == <<xmin, xmax, ymin, ymax>>
evals == <<ex, first, last>>
vars == <<pc, i, it, xmin, xmax, ymin, ymax, axes, calls, loads, anims,
          written, err, bad, ex, first, last>>

(***************************************************************************)
(* Bound of the model: how many input files may be bad in one run.         *)
(***************************************************************************)
MaxBad == 1

(***************************************************************************)
(* Configuration constants of the script.                                  *)
(***************************************************************************)
name == "basic-bimodal"
dir == "../../../flip-bench/experiments/basic-bimodal/"
data_counts == <<40, 60, 340>>
countmin == 40
countmax == 500
rearr_start == 50
rearr_period == 100
\* kld_max = 0.13, kept exact as numerator / denominator
kld_max == <<13, 100>>
start == 10
end == 500
step == 10
fps == 4

(***************************************************************************)
(* Python's str(int): the decimal digits, most significant first, with a   *)
(* leading '-' for a negative number.                                      *)
(***************************************************************************)
Digit(d) == SubSeq("0123456789", d + 1, d + 1)

RECURSIVE strNat(_)
strNat(n) == IF n < 10 THEN Digit(n) ELSE strNat(n \div 10) \o Digit(n % 10)

str(n) == IF n < 0 THEN "-" \o strNat(-n) ELSE strNat(n)

\* chr(ord('a') + k)
chr_a(k) == SubSeq("abcdefghijklmnopqrstuvwxyz", k + 1, k + 1)

(***************************************************************************)
(* def data_loc(i): return dir + "basic-bimodal-pdf-" + str(i) + ".out"    *)
(***************************************************************************)
data_loc_nocount(c) == dir \o "basic-bimodal-pdf-" \o ".out"

data_loc(c) == dir \o "basic-bimodal-pdf-" \o str(c) \o ".out"

kld_data_loc == dir \o "basic-bimodal-kld.out"

\* annotation = "(" + chr(ord('a') + i) + ")" + " pdf at update count: " + str(data_count)
annotation(k, data_count) ==
    "(" \o chr_a(k) \o ")" \o " pdf at update count: " \o str(data_count)

(***************************************************************************)
(* Input files (design document, section 3 and 6): one checkpoint sample   *)
(* file per update count and one divergence trace file.  A file of this    *)
(* run is readable, missing or malformed; `bad` maps the files that are    *)
(* not readable to what is wrong with them.                                *)
(***************************************************************************)
RECURSIVE SweepFrom(_, _, _)
SweepFrom(c, e, st) ==
    IF c > e THEN <<>> ELSE <<c>> \o SweepFrom(c + st, e, st)

\* the checkpoints of a sweep, in order, the end bound included (section 4.4)
Sweep(s, e, st) == SweepFrom(s, e, st)

Range(seq) == {seq[k] : k \in DOMAIN seq}

InputFiles ==
    {data_loc(c) : c \in Range(Sweep(start, end, step)) \cup Range(data_counts)}
        \cup {kld_data_loc}

RECURSIVE SubsetsUpTo(_, _)
SubsetsUpTo(S, n) ==
    IF n = 0 THEN {{}}
    ELSE LET P == SubsetsUpTo(S, n - 1)
         IN  P \cup {T \cup {x} : T \in P, x \in S}

BadChoices ==
    UNION {[S -> {"missing", "malformed"}] : S \in SubsetsUpTo(InputFiles, MaxBad)}

\* reading one input file: "ok", or the load error it raises (section 4.2)
Load(path) == IF path \in DOMAIN bad THEN bad[path] ELSE "ok"

(***************************************************************************)
(* The calls of the script, with the arguments in the order it passes      *)
(* them.  Function arguments are recorded by name.                         *)
(***************************************************************************)
\* plt.subplot(1, len(data_counts) + 1, i + 1)
SubplotArgs(k) == <<1, Len(data_counts) + 1, k + 1>>

\* plt.subplot(1, len(data_counts) + 1, len(data_counts) + 1)
KldSubplotArgs == <<1, Len(data_counts) + 1, Len(data_counts) + 1>>

PdfplotBarArgs_swapped(data_count) ==
    [fn |-> "pdfplot_bar", f |-> "expected", path |-> data_loc(data_count),
     xmin |-> xmax, xmax |-> xmin, ymin |-> ymin, ymax |-> ymax]

\* pdfplt.pdfplot_bar(ax, expected, data_loc(data_count), xmin, xmax, ymin, ymax)
PdfplotBarArgs(data_count) ==
    [fn |-> "pdfplot_bar", f |-> "expected", path |-> data_loc(data_count),
     xmin |-> xmin, xmax |-> xmax, ymin |-> ymin, ymax |-> ymax]

KldplotArgs_swapped ==
    [fn |-> "kldplot", path |-> kld_data_loc, kld_max |-> kld_max,
     countmin |-> countmin, countmax |-> countmax,
     rearr_start |-> rearr_period, rearr_period |-> rearr_start]

\* kldplt.kldplot(ax, kld_data_loc, kld_max, countmin, countmax, rearr_start, rearr_period)
KldplotArgs ==
    [fn |-> "kldplot", path |-> kld_data_loc, kld_max |-> kld_max,
     countmin |-> countmin, countmax |-> countmax,
     rearr_start |-> rearr_start, rearr_period |-> rearr_period]

ErrorbarArgs_swapped ==
    [fn |-> "animated_pdfplot_errorbar", loc |-> "data_loc",
     start |-> start, end |-> step, step |-> end, f |-> "expected",
     xmin |-> xmin, xmax |-> xmax, ymin |-> ymin, ymax |-> ymax]

\* pdfplt.animated_pdfplot_errorbar(data_loc, start, end, step, expected, xmin, xmax, ymin, ymax)
ErrorbarArgs ==
    [fn |-> "animated_pdfplot_errorbar", loc |-> "data_loc",
     start |-> start, end |-> end, step |-> step, f |-> "expected",
     xmin |-> xmin, xmax |-> xmax, ymin |-> ymin, ymax |-> ymax]

\* pdfplt.animated_pdfplot_bar(data_loc, start, end, step, expected, xmin, xmax, ymin, ymax)
BarArgs ==
    [fn |-> "animated_pdfplot_bar", loc |-> "data_loc",
     start |-> start, end |-> end, step |-> step, f |-> "expected",
     xmin |-> xmin, xmax |-> xmax, ymin |-> ymin, ymax |-> ymax]

(***************************************************************************)
(* pdfplot / kldplot (design document, sections 4.2 - 4.4).                *)
(***************************************************************************)
\* section 4.2: draws the panel, or raises the load error of its file
pdfplot_bar(a) == Load(a.path)

RECURSIVE MarkersFrom(_, _, _, _)
MarkersFrom(m, period, lo, hi) ==
    IF m > hi THEN {}
    ELSE (IF m >= lo THEN {m} ELSE {}) \cup MarkersFrom(m + period, period, lo, hi)

\* section 4.3: rearr_start + k * rearr_period (k = 0, 1, 2, ...) within
\* [countmin, countmax]
RearrMarkers(a) == MarkersFrom(a.rearr_start, a.rearr_period, a.countmin, a.countmax)

\* section 4.3: draws the divergence panel with its markers, or raises the
\* load error of the trace file
kldplot(a) ==
    [outcome |-> Load(a.path),
     markers |-> IF Load(a.path) = "ok" THEN RearrMarkers(a) ELSE {}]

\* the first checkpoint of the sweep whose file does not load; 0 when all load
RECURSIVE FirstBad(_, _)
FirstBad(sw, k) ==
    IF k > Len(sw) THEN 0
    ELSE IF Load(data_loc(sw[k])) # "ok" THEN k
    ELSE FirstBad(sw, k + 1)

\* section 4.4: one frame per checkpoint of the sweep, in order; the first
\* file that does not load aborts the build and no animation is returned
animated_pdfplot(a) ==
    LET sw == Sweep(a.start, a.end, a.step)
        b == FirstBad(sw, 1)
    IN  IF b = 0
        THEN [outcome |-> "ok", frames |-> sw, path |-> "",
              loaded |-> sw]
        ELSE [outcome |-> Load(data_loc(sw[b])), frames |-> <<>>,
              path |-> data_loc(sw[b]), loaded |-> SubSeq(sw, 1, b)]

(***************************************************************************)
(* The run of the script.                                                  *)
(*   pc       the statement the run is at, "done" or "aborted"             *)
(*   i        the module-level panel counter                               *)
(*   it       the position of the for loop's iterator in data_counts       *)
(*   axes     the subplots created so far, in order of creation            *)
(*   calls    the argument lists of the render / build calls made so far   *)
(*   loads    the checkpoint paths resolved by data_loc and read so far    *)
(*   anims    utd_animation1 / utd_animation2                              *)
(*   written  the output files written so far, in order                    *)
(*   err      the exception that ended the run, if any                     *)
(*   ex       the abscissa the reference density is evaluated around       *)
(*   first    the first evaluation of expected made in the run             *)
(*   last     the latest evaluation of expected made in the run            *)
(***************************************************************************)
NoErr == [at |-> "none", kind |-> "none", path |-> ""]
NoAnim == [built |-> FALSE, frames |-> <<>>]
NoObs == [x |-> 0, i |-> 0, gi |-> 0, y |-> -1]

InitRun ==
    /\ pc = "panel"
    /\ i = 0
    /\ it = 0
    /\ xmin = -5
    /\ xmax = 5
    /\ ymin = 0
    /\ ymax = <<3, 10>>          \* 0.3, kept exact as numerator / denominator
    /\ axes = <<>>
    /\ calls = <<>>
    /\ loads = <<>>
    /\ anims = [utd_animation1 |-> NoAnim, utd_animation2 |-> NoAnim]
    /\ written = <<>>
    /\ err = NoErr

Init ==
    /\ InitRun
    /\ bad \in BadChoices
    /\ ex = 0
    /\ first = NoObs
    /\ last = NoObs

Propagate_swallow(outcome, nextpc) == nextpc

\* no statement of the script catches an exception: a call that raises ends
\* the run there, otherwise the run goes on with the next statement
Propagate(outcome, nextpc) == IF outcome = "ok" THEN nextpc ELSE "aborted"

Raised(at, outcome, path) ==
    IF outcome = "ok" THEN err ELSE [at |-> at, kind |-> outcome, path |-> path]

NextI_stuck(k) == k

\* i = i + 1
NextI(k) == k + 1

LoadsOf(counts) == [k \in DOMAIN counts |-> [count |-> counts[k], path |-> data_loc(counts[k])]]

\* for data_count in data_counts: subplot, set_title, pdfplot_bar, i = i + 1
PanelStep ==
    /\ pc = "panel"
    /\ it < Len(data_counts)
    /\ LET data_count == data_counts[it + 1]
           sp == SubplotArgs(i)
           a == PdfplotBarArgs(data_count)
           r == pdfplot_bar(a)
       IN  /\ axes' = Append(axes, [nrows |-> sp[1], ncols |-> sp[2], index |-> sp[3],
                                    title |-> annotation(i, data_count),
                                    kind |-> "pdf", drawn |-> (r = "ok"),
                                    markers |-> {}])
           /\ calls' = Append(calls, a)
           /\ loads' = loads \o LoadsOf(<<data_count>>)
           /\ i' = IF r = "ok" THEN NextI(i) ELSE i
           /\ it' = it + 1
           /\ pc' = Propagate(r, IF it + 1 < Len(data_counts) THEN "panel" ELSE "kld")
           /\ err' = Raised("panel", r, a.path)
    /\ UNCHANGED <<bounds, anims, written, bad, evals>>

\* ax = plt.subplot(...); ax.set_title("(d) KL-divergence"); kldplt.kldplot(...)
KldPanel ==
    /\ pc = "kld"
    /\ LET sp == KldSubplotArgs
           a == KldplotArgs
           r == kldplot(a)
       IN  /\ axes' = Append(axes, [nrows |-> sp[1], ncols |-> sp[2], index |-> sp[3],
                                    title |-> "(d) KL-divergence",
                                    kind |-> "kld", drawn |-> (r.outcome = "ok"),
                                    markers |-> r.markers])
           /\ calls' = Append(calls, a)
           /\ pc' = Propagate(r.outcome, "save_pdf")
           /\ err' = Raised("kld", r.outcome, a.path)
    /\ UNCHANGED <<i, it, bounds, loads, anims, written, bad, evals>>

(***************************************************************************)
(* Writing an output file succeeds, or fails (section 7, output-write      *)
(* failure) leaving either nothing or a partial file behind.               *)
(***************************************************************************)
WriteOutcomes == {"ok", "write_failed_nothing", "write_failed_partial"}

Wrote(file, content, w) ==
    IF w = "ok" THEN Append(written, [file |-> file, state |-> "complete", content |-> content])
    ELSE IF w = "write_failed_partial"
    THEN Append(written, [file |-> file, state |-> "partial", content |-> content])
    ELSE written

PdfFile_png == name \o ".png"

\* the output files, named from the experiment name and a suffix
PdfFile == name \o ".pdf"
PngFile == name \o ".png"
ErrorbarFile == name \o "-errorbar.gif"
HistoFile == name \o "-histo.gif"

Save(at, file, content, nextpc) ==
    \E w \in WriteOutcomes :
        /\ written' = Wrote(file, content, w)
        /\ pc' = Propagate(w, nextpc)
        /\ err' = Raised(at, w, file)

\* plt.legend(); plt.savefig(name + '.pdf')
SavePdf ==
    /\ pc = "save_pdf"
    /\ Save("save_pdf", PdfFile, Len(axes), "save_png")
    /\ UNCHANGED <<i, it, bounds, axes, calls, loads, anims, bad, evals>>

\* plt.savefig(name + '.png'); plt.show()
SavePng ==
    /\ pc = "save_png"
    /\ Save("save_png", PngFile, Len(axes), "anim1")
    /\ UNCHANGED <<i, it, bounds, axes, calls, loads, anims, bad, evals>>

Build(at, which, a, nextpc) ==
    LET r == animated_pdfplot(a)
    IN  /\ calls' = Append(calls, a)
        /\ loads' = loads \o LoadsOf(r.loaded)
        /\ anims' = IF r.outcome = "ok"
                    THEN [anims EXCEPT ![which] = [built |-> TRUE, frames |-> r.frames]]
                    ELSE anims
        /\ pc' = Propagate(r.outcome, nextpc)
        /\ err' = Raised(at, r.outcome, r.path)

\* utd_animation1 = pdfplt.animated_pdfplot_errorbar(...)
BuildErrorbar ==
    /\ pc = "anim1"
    /\ Build("anim1", "utd_animation1", ErrorbarArgs, "save1")
    /\ UNCHANGED <<i, it, bounds, axes, written, bad, evals>>

\* utd_animation1.save(name + '-errorbar.gif', writer='imagemagick', fps=fps)
SaveErrorbar ==
    /\ pc = "save1"
    /\ Save("save1", ErrorbarFile, [frames |-> anims.utd_animation1.frames, fps |-> fps], "anim2")
    /\ UNCHANGED <<i, it, bounds, axes, calls, loads, anims, bad, evals>>

\* utd_animation2 = pdfplt.animated_pdfplot_bar(...)
BuildBar ==
    /\ pc = "anim2"
    /\ Build("anim2", "utd_animation2", BarArgs, "save2")
    /\ UNCHANGED <<i, it, bounds, axes, written, bad, evals>>

\* utd_animation2.save(name + '-histo.gif', writer='imagemagick', fps=fps)
SaveBar ==
    /\ pc = "save2"
    /\ Save("save2", HistoFile, [frames |-> anims.utd_animation2.frames, fps |-> fps], "done")
    /\ UNCHANGED <<i, it, bounds, axes, calls, loads, anims, bad, evals>>

Next ==
    \/ PanelStep
    \/ KldPanel
    \/ SavePdf
    \/ SavePng
    \/ BuildErrorbar
    \/ SaveErrorbar
    \/ BuildBar
    \/ SaveBar

Spec == Init /\ [][Next]_vars

(***************************************************************************)
(* def expected(x, i = -1):                                                *)
(*     return 0.5 * norm.pdf(x - 2) + 0.5 * norm.pdf(x + 2)                *)
(*                                                                         *)
(* Arithmetic is fixed point: an abscissa is counted in halves (x = 4 is   *)
(* 2.0) and a density in units of 1/10000.  scipy's norm.pdf(z) is         *)
(* exp(-z**2 / 2) / sqrt(2 * pi); with z = g / 2 that is exp(-1/8) ** (g*g) *)
(* times 0.3989, computed by repeated multiplication with truncation.      *)
(***************************************************************************)
MaxH == 12

RECURSIVE ExpPow(_, _)
ExpPow(acc, n) ==
    IF n = 0 \/ acc = 0 THEN acc ELSE ExpPow((acc * 8825) \div 10000, n - 1)

norm_pdf(g) == (ExpPow(10000, g * g) * 3989) \div 10000

Half(v) == (v * 5) \div 10

expected_shifted(x, a) == Half(norm_pdf(x - 4)) + Half(norm_pdf(x + 2))

expected_uses_i(x, a) == Half(norm_pdf(x - 4 - a)) + Half(norm_pdf(x + 4 + a))

expected(x, a) == Half(norm_pdf(x - 4)) + Half(norm_pdf(x + 4))

\* the second argument the renderers may pass: nothing (the default -1) or
\* the update count of the checkpoint being drawn
ArgChoices == {-1, data_counts[Len(data_counts)]}

\* a renderer that was handed `expected` evaluates it at ex or -ex
CallExpected ==
    /\ pc \in {"panel", "anim1", "anim2"}
    /\ \E x \in {ex, -ex}, a \in ArgChoices :
          LET o == [x |-> x, i |-> a, gi |-> i, y |-> expected(x, a)]
          IN  /\ first' = (IF first = NoObs THEN o ELSE first)
              /\ last' = o
    /\ UNCHANGED <<pc, i, it, bounds, axes, calls, loads, anims, written, err,
                   bad, ex>>

InitExpected ==
    /\ InitRun
    /\ bad \in [{} -> {"missing", "malformed"}]
    /\ ex \in -MaxH..MaxH
    /\ first = NoObs
    /\ last = NoObs

NextExpected == CallExpected \/ Next

SpecExpected == InitExpected /\ [][NextExpected]_vars

(***************************************************************************)
(* Vocabulary of the properties.                                           *)
(***************************************************************************)
PcOrder == <<"panel", "kld", "save_pdf", "save_png", "anim1", "save1",
             "anim2", "save2", "done">>

Pos(p) == CHOOSE k \in DOMAIN PcOrder : PcOrder[k] = p

\* the statement the run is at, or the one it stopped in
Here == IF pc = "aborted" THEN err.at ELSE pc

\* statement p has been executed and has returned normally
Passed(p) == Pos(Here) > Pos(p)

DigitVal(ch) ==
    CASE ch = "0" -> 0 [] ch = "1" -> 1 [] ch = "2" -> 2 [] ch = "3" -> 3
      [] ch = "4" -> 4 [] ch = "5" -> 5 [] ch = "6" -> 6 [] ch = "7" -> 7
      [] ch = "8" -> 8 [] ch = "9" -> 9 [] OTHER -> -1

IsDigits(s) ==
    /\ Len(s) > 0
    /\ \A k \in 1..Len(s) : DigitVal(SubSeq(s, k, k)) >= 0

RECURSIVE ParseNat(_)
ParseNat(s) ==
    IF Len(s) = 0 THEN 0
    ELSE 10 * ParseNat(SubSeq(s, 1, Len(s) - 1)) + DigitVal(SubSeq(s, Len(s), Len(s)))

IsPrefix(s, t) == Len(s) <= Len(t) /\ \A k \in 1..Len(s) : s[k] = t[k]

FilesWritten == [k \in DOMAIN written |-> written[k].file]

IsWritten(file) == \E k \in DOMAIN written : written[k].file = file

ExpectedTitles == <<"(a) pdf at update count: 40", "(b) pdf at update count: 60",
                    "(c) pdf at update count: 340", "(d) KL-divergence">>

(***************************************************************************)
(* C1: for data_counts = [40, 60, 340] the static stage creates exactly 4  *)
(* panels in a 1-row, 4-column grid at indices 1..4, three density panels  *)
(* followed by the divergence panel, no index used twice, titled (a)..(d)  *)
(* in index order, panel k (k = 1..3) titled for update count              *)
(* data_counts[k].                                                         *)
(***************************************************************************)
C1_StaticPanels ==
    /\ Len(axes) <= 4
    /\ \A j, k \in DOMAIN axes : j # k => axes[j].index # axes[k].index
    /\ \A k \in DOMAIN axes :
          /\ axes[k].nrows = 1
          /\ axes[k].ncols = 4
          /\ axes[k].index = k
          /\ axes[k].title = ExpectedTitles[k]
          /\ axes[k].kind = (IF k <= 3 THEN "pdf" ELSE "kld")
          /\ k <= 3 => calls[k].path = data_loc(data_counts[k])
    /\ Passed("kld") => Len(axes) = 4 /\ \A k \in 1..4 : axes[k].drawn

C1_Witness == Passed("kld") /\ Len(axes) = 4 /\ axes[3].drawn /\ axes[4].kind = "kld"

C3_Markers ==
    \A p \in DOMAIN axes :
        (axes[p].kind = "kld" /\ axes[p].drawn) =>
            /\ axes[p].markers = {50, 150, 250, 350, 450}
            /\ axes[p].markers =
                  {m \in 40..500 : \E k \in 0..10 : m = 50 + k * 100}

C3_Witness == \E p \in DOMAIN axes : axes[p].kind = "kld" /\ axes[p].drawn /\ pc = "save_pdf"

SweepCounts == {10 * k : k \in 1..50}

\* some checkpoint file of the animation sweep is missing or malformed
SweepFileBad == \E c \in SweepCounts : data_loc(c) \in DOMAIN bad

GifFiles == {"basic-bimodal-errorbar.gif", "basic-bimodal-histo.gif"}

(***************************************************************************)
(* C4: if any checkpoint file of the animation sweep is missing or         *)
(* malformed, the build aborts with the load error of that file and the    *)
(* .gif is never written, not even partially; no animation with fewer      *)
(* frames is built or saved.                                               *)
(***************************************************************************)
C4_NoGifOnBadSweep ==
    /\ SweepFileBad =>
          /\ \A k \in DOMAIN written : written[k].file \notin GifFiles
          /\ ~anims.utd_animation1.built /\ ~anims.utd_animation2.built
          /\ ~Passed("anim1")
    /\ err.at \in {"anim1", "anim2"} =>
          /\ pc = "aborted"
          /\ err.kind \in {"missing", "malformed"}
          /\ err.path \in DOMAIN bad /\ bad[err.path] = err.kind
    /\ \A k \in DOMAIN written :
          written[k].file \in GifFiles => Len(written[k].content.frames) = 50

C4_Witness ==
    /\ pc = "aborted"
    /\ err.at = "anim1"
    /\ err.path = "../../../flip-bench/experiments/basic-bimodal/basic-bimodal-pdf-250.out"
    /\ Len(written) = 2

(***************************************************************************)
(* C5: the axis bounds (xmin, xmax, ymin, ymax) passed to every density    *)
(* panel of the static figure and to both animation builders are the same, *)
(* (-5, 5, 0, 0.3), and the four globals keep these values throughout.     *)
(***************************************************************************)
C5_SameBounds ==
    /\ <<xmin, xmax, ymin, ymax>> = <<-5, 5, 0, <<3, 10>>>>
    /\ \A k \in DOMAIN calls :
          calls[k].fn # "kldplot" =>
              <<calls[k].xmin, calls[k].xmax, calls[k].ymin, calls[k].ymax>>
                  = <<-5, 5, 0, <<3, 10>>>>

C5_Witness ==
    /\ Len(calls) = 6
    /\ calls[1].fn = "pdfplot_bar"
    /\ calls[5].fn = "animated_pdfplot_errorbar"
    /\ calls[6].fn = "animated_pdfplot_bar"

(***************************************************************************)
(* C6: for every update count the run resolves, data_loc gives             *)
(* <dir> + <name> + "-pdf-" + decimal(count) + ".out", and two different   *)
(* update counts never resolve to the same path.                           *)
(***************************************************************************)
PathPrefix == "../../../flip-bench/experiments/basic-bimodal/" \o name \o "-pdf-"

WellFormed(path, count) ==
    LET n == Len(path)
        m == Len(PathPrefix)
        mid == SubSeq(path, m + 1, n - 4)
    IN  /\ n > m + 4
        /\ SubSeq(path, 1, m) = PathPrefix
        /\ SubSeq(path, n - 3, n) = ".out"
        /\ IsDigits(mid)
        /\ SubSeq(mid, 1, 1) # "0"
        /\ ParseNat(mid) = count

C6_PathsWellFormedDistinct ==
    /\ \A k \in DOMAIN loads : WellFormed(loads[k].path, loads[k].count)
    /\ \A j, k \in DOMAIN loads :
          loads[j].count # loads[k].count => loads[j].path # loads[k].path

C6_Witness ==
    /\ pc = "done"
    /\ {loads[k].count : k \in DOMAIN loads} = SweepCounts
    /\ Len(loads) = 103

(***************************************************************************)
(* C7: if loading fails for a static density panel's checkpoint file or    *)
(* for the divergence trace file, the run aborts at that render call:      *)
(* neither the .pdf nor the .png is written, no later panel is rendered,   *)
(* and neither animation is built or saved.                                *)
(***************************************************************************)
StaticFiles == <<data_loc(40), data_loc(60), data_loc(340), kld_data_loc>>

C7_StaticLoadFailureAborts ==
    \A k \in 1..4 :
        (StaticFiles[k] \in DOMAIN bad /\ \A j \in 1..(k - 1) : StaticFiles[j] \notin DOMAIN bad) =>
            /\ Len(axes) <= k
            /\ Len(axes) = k =>
                  /\ ~axes[k].drawn
                  /\ pc = "aborted"
                  /\ err = [at |-> (IF k <= 3 THEN "panel" ELSE "kld"),
                            kind |-> bad[StaticFiles[k]], path |-> StaticFiles[k]]
            /\ Len(calls) <= k
            /\ written = <<>>
            /\ ~anims.utd_animation1.built /\ ~anims.utd_animation2.built

C7_Witness ==
    /\ pc = "aborted"
    /\ err.at = "panel"
    /\ Len(axes) = 2
    /\ axes[1].drawn /\ ~axes[2].drawn

C7_WitnessKld == pc = "aborted" /\ err.at = "kld" /\ Len(axes) = 4

(***************************************************************************)
(* C9: the output files are written in the order name.pdf, name.png,       *)
(* name-errorbar.gif, name-histo.gif, all after the four panels have been  *)
(* rendered: the files written so far are always a prefix of that          *)
(* sequence, the run stops at its first error, and a run that completes    *)
(* has written each of the four exactly once.                              *)
(***************************************************************************)
OutputOrder == <<"basic-bimodal.pdf", "basic-bimodal.png",
                 "basic-bimodal-errorbar.gif", "basic-bimodal-histo.gif">>

\* the savefig / save calls that come before statement p
SavesBefore(p) == Cardinality({q \in {"save_pdf", "save_png", "save1", "save2"} : Pos(q) < Pos(p)})

C9_OutputOrder ==
    /\ IsPrefix(FilesWritten, OutputOrder)
    /\ written # <<>> => Len(axes) = 4 /\ \A k \in 1..4 : axes[k].drawn
    /\ \A k \in DOMAIN written :
          written[k].state = "partial" => (k = Len(written) /\ pc = "aborted")
    /\ (err # NoErr) <=> (pc = "aborted")
    /\ pc = "aborted" =>
          /\ ~ENABLED Next
          /\ Len(written) - SavesBefore(err.at)
                = (IF err.kind = "write_failed_partial" THEN 1 ELSE 0)
    /\ pc # "aborted" => Len(written) = SavesBefore(pc)
    /\ pc = "done" =>
          /\ FilesWritten = OutputOrder
          /\ \A k \in 1..4 : written[k].state = "complete"

C9_Witness == pc = "done" /\ Len(written) = 4

(***************************************************************************)
(* C8: the reference density is symmetric: expected(x) = expected(-x).     *)
(***************************************************************************)
C8_Symmetric ==
    (first # NoObs /\ first.x = -last.x) => first.y = last.y

C8_Witness ==
    /\ first # NoObs
    /\ first.x = 3
    /\ last.x = -3
    /\ first.y > 0
    /\ last.y = first.y

(***************************************************************************)
(* C10: the reference density is a function of x alone: whatever update    *)
(* count is passed as i (or none, i = -1) and whatever the module-level i  *)
(* is at the time of the call, the result at x is the same, and a call     *)
(* does not change the module-level i, which is only advanced by the panel *)
(* loop.                                                                   *)
(***************************************************************************)
C10_IndependentOfI ==
    /\ (first # NoObs /\ first.x = last.x) => first.y = last.y
    /\ i = Cardinality({k \in DOMAIN axes : axes[k].kind = "pdf" /\ axes[k].drawn})
    /\ last # NoObs => last.gi <= i

C10_Witness ==
    /\ first # NoObs
    /\ first.x = last.x
    /\ first.i # last.i
    /\ first.gi # last.gi
    /\ first.y > 0

====
